---- MODULE Spec2Model ----
(***************************************************************************)
(* State-machine model of the web crawler: crawler.py (module state,       *)
(* fetch_url, extract_links_and_images, crawl, save_results) driven by the *)
(* "Start Crawling" handler of app.py.                                     *)
(*                                                                         *)
(* A URL is the record urlparse() yields: host (netloc), path (the list of *)
(* pieces after splitting the path at "/": "" is <<>>, "/" is <<"">>,      *)
(* "/news/b" is <<"news","b">>) and query ("" when there is no query or    *)
(* fragment).  The scheme is http throughout.                              *)
(***************************************************************************)
EXTENDS Integers, Sequences, FiniteSets, TLC

VARIABLES
    TARGET_URL,            \* crawler.TARGET_URL
    MAX_CRAWL,             \* crawler.MAX_CRAWL
    KEYWORDS,              \* crawler.KEYWORDS (a list)
    visited_urls,          \* crawler.visited_urls
    all_pages,             \* crawler.all_pages: set of <<url, title, timestamp>>
    all_images,            \* crawler.all_images
    all_links_found,       \* crawler.all_links_found
    keyword_matches,       \* crawler.keyword_matches: dict, kept in insertion order
    high_priority_queue,   \* crawler.high_priority_queue (FIFO)
    low_priority_queue,    \* crawler.low_priority_queue (FIFO)
    rp,                    \* crawler.rp: the RobotFileParser
    crawl_count,           \* local crawl_count of crawl()
    current_url,           \* local current_url of crawl()
    attempt,               \* attempt number inside the @retry wrapper of fetch_url
    pc,                    \* where the handler is: "idle", "loop", "fetch"
    now,                   \* the clock read by datetime.now()
    files,                 \* crawler_output/: file name -> Absent or the rows' timestamps
    crawl_complete,        \* st.session_state.crawl_complete
    zip_file,              \* st.session_state.zip_file: names bundled in the archive
    message,               \* what the page shows last: st.error / st.success / exception
    runs_left,             \* presses of "Start Crawling" still to come
    site,                  \* the pages the server can answer a fetch with
    last,                  \* how the last loop iteration ended
    failed_urls,           \* history: URLs whose fetch failed terminally in this run
    unslept,               \* history: a fetch has returned and time.sleep(DELAY) has not
                           \* run since
    attempted,             \* history: the files the last save_results() tried to open
    owed                   \* history: <<K, N>>, K put on the high and N on the low queue
                           \* by one page, K not dequeued since

vars == <<TARGET_URL, MAX_CRAWL, KEYWORDS, visited_urls, all_pages, all_images,
          all_links_found, keyword_matches, high_priority_queue, low_priority_queue,
          rp, crawl_count, current_url, attempt, pc, now, files, crawl_complete,
          zip_file, message, runs_left, site, last, failed_urls, unslept,
          attempted, owed>>

-----------------------------------------------------------------------------
(* Bounds of the model *)

\* largest page budget typed into "Max Pages to Crawl"
MaxBudget == 2

\* presses of "Start Crawling" that reach crawl(), where several runs are followed
MaxRuns == 2

(* Program constants *)

\* MAX_CRAWL = 5
DEFAULT_MAX_CRAWL == 5

\* stop_after_attempt(3)
STOP_AFTER_ATTEMPT == 3

-----------------------------------------------------------------------------
(* URLs *)

U(h, p, q) == [host |-> h, path |-> p, query |-> q]

\* TARGET_URL = "http://books.toscrape.com": no path, no query
DEFAULT_TARGET_URL == U("site", <<>>, "")

\* What the user may type into "Start URL" (already stripped, not blank)
Seeds == { DEFAULT_TARGET_URL, U("site", <<"news", "">>, "q") }

NoURL == U("", <<>>, "")

\* str.lower() on the words of the model
Lower(s) == IF s = "NEWS" THEN "news" ELSE s

is_same_domain_anyhost(url, base_url) == TRUE

is_same_domain(url, base_url) == url.host = base_url.host

normalize_url(url) == [host |-> url.host, path |-> url.path, query |-> ""]

Front(s) == IF Len(s) = 0 THEN s ELSE SubSeq(s, 1, Len(s) - 1)

\* urljoin(base, href) for the href shapes of the model
urljoin(base, href) ==
    CASE href.kind = "abs"    -> href.url
      [] href.kind = "rooted" -> U(base.host, href.path, href.query)
      [] href.kind = "rel"    -> U(base.host, Front(base.path) \o href.path, href.query)
      [] OTHER                -> base

Abs(u)       == [kind |-> "abs", url |-> u]
Rooted(p, q) == [kind |-> "rooted", path |-> p, query |-> q]
Rel(p)       == [kind |-> "rel", path |-> p, query |-> ""]
Fragment     == [kind |-> "fragment"]
Javascript   == [kind |-> "javascript"]
EmptyHref    == [kind |-> "empty"]

\* url and not url.startswith(('javascript:', '#'))
Followable(href) == href.kind \in {"abs", "rooted", "rel"}

\* link.get_text(strip=True) or "No link text"
LinkText(t) == IF t = "" THEN "No link text" ELSE t

\* img.get('alt', 'No alt text')
AltText(a) == IF a = "ABSENT" THEN "No alt text" ELSE a

-----------------------------------------------------------------------------
(* The pages a fetch can return.  title: "NOTAG" when the page has no      *)
(* <title>, "EMPTYTAG" when it has <title></title> (soup.title.string is   *)
(* None and .strip() raises AttributeError), else the title text.          *)

Page(t, ls, is, ws) == [title |-> t, links |-> ls, imgs |-> is, text |-> ws]

L(h, t) == [href |-> h, text |-> t]

PagePool ==
    { Page("Home",
           { L(Rooted(<<"a">>, ""), "x"), L(Rooted(<<"news", "b">>, ""), "n"),
             L(Rooted(<<"news", "b">>, "q"), "m") },
           {}, {}),
      Page("NOTAG",
           { L(Abs(U("other", <<"news", "c">>, "")), "ext"),
             L(Rooted(<<"a">>, "q"), ""), L(Fragment, "top") },
           { [src |-> Rooted(<<"i.png">>, ""), alt |-> "ABSENT"] },
           { "NEWS" }),
      Page("EMPTYTAG", { L(Rooted(<<"a">>, ""), "x") }, {}, {}),
      Page("Home",
           { L(Rel(<<"b">>), "rel"), L(Rooted(<<"">>, ""), "root"),
             L(Javascript, "js"), L(EmptyHref, "none") },
           {}, { "news" }) }

-----------------------------------------------------------------------------
(* Keywords *)

\* a keyword that is no valid regular expression: re.search raises re.error
BadRegex == "("

\* kw.strip() on the pieces of the model
Strip(s) == CASE s = " news " -> "news" [] s = " " -> "" [] OTHER -> s

\* What the user may type into "Keywords", split at ","
KeywordInputs == { <<"">>, <<" news ", " ">>, <<"NEWS", "(">> }

RECURSIVE ParseFrom(_, _)
ParseFrom(pieces, i) ==
    IF i > Len(pieces) THEN <<>>
    ELSE IF Strip(pieces[i]) # "" THEN <<Strip(pieces[i])>> \o ParseFrom(pieces, i + 1)
    ELSE ParseFrom(pieces, i + 1)

\* [kw.strip() for kw in keywords_input.split(",") if kw.strip()]
ParseKeywords(pieces) == ParseFrom(pieces, 1)

\* re.search(rf'/{kw}/', url, re.I): kw is a piece of the URL with a "/" on both sides
PathMatch(kw, url) ==
    \/ \E i \in 1..(Len(url.path) - 1) : Lower(url.path[i]) = Lower(kw)
    \/ Len(url.path) >= 1 /\ Lower(url.host) = Lower(kw)

RECURSIVE ClassifyFrom(_, _, _)
ClassifyFrom(url, kws, i) ==
    IF i > Len(kws) THEN "low"
    ELSE IF kws[i] = BadRegex THEN "error"
    ELSE IF PathMatch(kws[i], url) THEN "high"
    ELSE ClassifyFrom(url, kws, i + 1)

\* any(re.search(rf'/{kw}/', link[0], re.I) for kw in KEYWORDS)
Classify(url, kws) == ClassifyFrom(url, kws, 1)

RECURSIVE MatchFrom(_, _, _)
MatchFrom(text, kws, i) ==
    IF i > Len(kws) THEN <<>>
    ELSE IF Lower(kws[i]) \in { Lower(w) : w \in text }
         THEN <<kws[i]>> \o MatchFrom(text, kws, i + 1)
    ELSE MatchFrom(text, kws, i + 1)

\* [kw for kw in KEYWORDS if kw.lower() in content_lower]
check_keywords(text, kws) == MatchFrom(text, kws, 1)

-----------------------------------------------------------------------------
(* Robots *)

\* what rp.read() can do: raise (ok is FALSE), or load the paths robots.txt disallows.
\* The robots.txt files of the model are read without error.
RobotsOutcomes ==
    { [ok |-> TRUE, disallow |-> {}], [ok |-> TRUE, disallow |-> { <<"a">> }] }

\* load_robots_txt(base_url): a failed read is logged and leaves rp as it was
load_robots_txt(old, outcome) ==
    IF outcome.ok THEN [read |-> TRUE, disallow |-> outcome.disallow] ELSE old

IsPrefix(p, s) == Len(p) <= Len(s) /\ SubSeq(s, 1, Len(p)) = p

\* rp.can_fetch(USER_AGENT, url)
can_fetch(url) == rp.read /\ \A p \in rp.disallow : ~IsPrefix(p, url.path)

-----------------------------------------------------------------------------
(* Collections *)

\* the orders in which a Python set can be iterated
Orders(S) ==
    { o \in [1..Cardinality(S) -> S] : \A i, j \in 1..Cardinality(S) : o[i] = o[j] => i = j }

SeqSet(s) == { s[i] : i \in 1..Len(s) }

\* sorted(S, key=lambda x: x[k], reverse=True), keeping the timestamp column
RECURSIVE RowsDesc(_, _)
RowsDesc(S, k) ==
    IF S = {} THEN <<>>
    ELSE LET x == CHOOSE x \in S : \A y \in S : x[k] >= y[k]
         IN  <<x[k]>> \o RowsDesc(S \ {x}, k)

\* for url, data in keyword_matches.items(): the rows in insertion order
RowsInOrder(d) == [i \in 1..Len(d) |-> d[i].timestamp]

\* keyword_matches[key] = value: a new key goes last, a known key keeps its place
DictSet(d, key, value) ==
    IF \E i \in 1..Len(d) : d[i].url = key
    THEN [i \in 1..Len(d) |-> IF d[i].url = key THEN value ELSE d[i]]
    ELSE Append(d, value)

-----------------------------------------------------------------------------
(* crawl(): the pieces of one loop iteration *)

\* (not high.empty() or not low.empty()) and crawl_count < MAX_CRAWL
LoopCondition ==
    /\ Len(high_priority_queue) > 0 \/ Len(low_priority_queue) > 0
    /\ crawl_count < MAX_CRAWL

SelectQueue_lowfirst(hq, lq) == IF Len(lq) > 0 THEN "low" ELSE "high"

\* high_priority_queue.get() if not high_priority_queue.empty() else low_priority_queue.get()
SelectQueue(hq, lq) == IF Len(hq) > 0 THEN "high" ELSE "low"

AlreadyVisited_never(url, visited) == FALSE

\* if current_url in visited_urls: continue
AlreadyVisited(url, visited) == url \in visited

MarkVisited_skip(visited, url) == visited

\* visited_urls.add(current_url)
MarkVisited(visited, url) == visited \cup {url}

\* soup.title.string.strip() if soup.title else "No Title"
PageTitle(page) == IF page.title = "NOTAG" THEN "No Title" ELSE page.title

\* soup.title.string.strip() raises AttributeError when <title> is empty
TitleRaises(page) == page.title = "EMPTYTAG"

\* the links extract_links_and_images(soup, base_url) returns: <<url, text>>
extract_links(page, base_url) ==
    { <<normalize_url(urljoin(base_url, l.href)), LinkText(l.text)>> :
        l \in { l \in page.links :
                  /\ Followable(l.href)
                  /\ is_same_domain(normalize_url(urljoin(base_url, l.href)), base_url) } }

\* link[0] not in visited_urls and not any(link[0] == url for url, _, _ in all_pages)
ShouldEnqueue(url, visited, pages) ==
    url \notin visited /\ ~ \E p \in pages : p[1] = url

PutHigh(c, hq, url) == IF c = "high" THEN Append(hq, url) ELSE hq

PutLow_noelse(c, lq, url) == IF c \in {"high", "low"} THEN Append(lq, url) ELSE lq

PutLow(c, lq, url) == IF c = "low" THEN Append(lq, url) ELSE lq

\* for link in new_links: ... put(link[0]); stops at the first re.error
RECURSIVE EnqueueFrom(_, _, _, _, _, _, _)
EnqueueFrom(order, i, visited, pages, kws, hq, lq) ==
    IF i > Len(order) THEN [hq |-> hq, lq |-> lq, raised |-> FALSE]
    ELSE LET url == order[i][1]
         IN  IF ~ShouldEnqueue(url, visited, pages)
             THEN EnqueueFrom(order, i + 1, visited, pages, kws, hq, lq)
             ELSE LET c == Classify(url, kws)
                  IN  IF c = "error" THEN [hq |-> hq, lq |-> lq, raised |-> TRUE]
                      ELSE EnqueueFrom(order, i + 1, visited, pages, kws,
                                       PutHigh(c, hq, url), PutLow(c, lq, url))

\* what the entries from position n + 1 on are
Added(q, n) == { q[i] : i \in (n + 1)..Len(q) }

-----------------------------------------------------------------------------
(* Files of crawler_output/ *)

FileNames == { "pages.csv", "images.csv", "all_links.csv", "keyword_matches.csv" }

Absent == [exists |-> FALSE, rows |-> <<>>]

Written(rows) == [exists |-> TRUE, rows |-> rows]

\* save_results() writes pages, images, all_links, then keyword_matches if there are
\* any.  fail_at = 0: every open() succeeds; fail_at = i: the i-th open() raises
\* OSError, which leaves that file and the later ones as they were.
SavedFiles(old, fail_at) ==
    [f \in FileNames |->
        CASE f = "pages.csv" ->
               IF fail_at = 1 THEN old[f] ELSE Written(RowsDesc(all_pages, 3))
          [] f = "images.csv" ->
               IF fail_at \in {1, 2} THEN old[f] ELSE Written(RowsDesc(all_images, 5))
          [] f = "all_links.csv" ->
               IF fail_at \in {1, 2, 3} THEN old[f] ELSE Written(RowsDesc(all_links_found, 5))
          [] OTHER ->
               IF fail_at # 0 \/ Len(keyword_matches) = 0 THEN old[f]
               ELSE Written(RowsInOrder(keyword_matches))]

\* the files save_results() should write: keyword_matches.csv only if there are matches
FilesToWrite ==
    { "pages.csv", "images.csv", "all_links.csv" } \cup
      (IF Len(keyword_matches) > 0 THEN { "keyword_matches.csv" } ELSE {})

\* the files save_results() opens before it returns or raises
OpenedFiles(fail_at) ==
    CASE fail_at = 0 -> FilesToWrite
      [] fail_at = 1 -> { "pages.csv" }
      [] fail_at = 2 -> { "pages.csv", "images.csv" }
      [] fail_at = 3 -> { "pages.csv", "images.csv", "all_links.csv" }
      [] OTHER       -> FileNames

\* create_zip(): whichever of the four files exist
create_zip(fs) == { f \in FileNames : fs[f].exists }

-----------------------------------------------------------------------------
(* Initial state: crawler.py imported, nothing pressed yet *)

Imported(presses, pages) ==
    /\ TARGET_URL = DEFAULT_TARGET_URL
    /\ MAX_CRAWL = DEFAULT_MAX_CRAWL
    /\ KEYWORDS = <<>>
    /\ visited_urls = {}
    /\ all_pages = {}
    /\ all_images = {}
    /\ all_links_found = {}
    /\ keyword_matches = <<>>
    /\ high_priority_queue = <<DEFAULT_TARGET_URL>>
    /\ low_priority_queue = <<>>
    /\ rp = [read |-> FALSE, disallow |-> {}]
    /\ crawl_count = 0
    /\ current_url = NoURL
    /\ attempt = 0
    /\ pc = "idle"
    /\ now = 1
    /\ files = [f \in FileNames |-> Absent]
    /\ crawl_complete = FALSE
    /\ zip_file = {}
    /\ message = "none"
    /\ runs_left = presses
    /\ site = pages
    /\ last = "none"
    /\ failed_urls = {}
    /\ unslept = FALSE
    /\ attempted = {}
    /\ owed = {}

\* one press of "Start Crawling" on the whole site
Init == Imported(1, PagePool)

\* the pages that hold the word "news"
SmallSite == { p \in PagePool : "news" \in p.text }

\* several presses of "Start Crawling" on a small site
InitRuns == Imported(MaxRuns, SmallSite)

crawlerState == <<visited_urls, all_pages, all_images, all_links_found, keyword_matches,
                  high_priority_queue, low_priority_queue>>

loopLocals == <<crawl_count, current_url, attempt, last, failed_urls, unslept, owed>>

config == <<TARGET_URL, MAX_CRAWL, KEYWORDS>>

\* crawler_output/, st.session_state and the site: untouched while crawl() runs
session == <<files, crawl_complete, zip_file, site, attempted>>

-----------------------------------------------------------------------------
(* "Start Crawling" pressed *)

\* if not target_url.strip(): st.error("Please enter a valid URL")
StartBlankURL ==
    /\ pc = "idle"
    /\ message # "Please enter a valid URL"
    /\ message' = "Please enter a valid URL"
    /\ UNCHANGED <<config, crawlerState, loopLocals, session, rp, pc, now, runs_left>>

\* crawler.TARGET_URL is set, then int(max_pages) raises ValueError
StartBadNumber(t) ==
    /\ pc = "idle"
    /\ TARGET_URL' = t
    /\ message' = "Please enter a valid number for max pages"
    /\ message' # message \/ TARGET_URL' # TARGET_URL
    /\ UNCHANGED <<MAX_CRAWL, KEYWORDS, crawlerState, loopLocals, session, rp, pc, now,
                   runs_left>>

ResetVisited_kept(old) == old

\* reset_crawler(): crawler.visited_urls = set()
ResetVisited(old) == {}

\* the configuration is written, reset_crawler() runs, crawl() loads robots.txt and
\* enters its loop
Start(t, m, k, robots) ==
    /\ pc = "idle"
    /\ runs_left > 0
    /\ runs_left' = runs_left - 1
    /\ TARGET_URL' = t
    /\ MAX_CRAWL' = m
    /\ KEYWORDS' = ParseKeywords(k)
    /\ high_priority_queue' = <<t>>
    /\ low_priority_queue' = <<>>
    /\ visited_urls' = ResetVisited(visited_urls)
    /\ all_pages' = {}
    /\ all_images' = {}
    /\ all_links_found' = {}
    /\ keyword_matches' = <<>>
    /\ rp' = load_robots_txt(rp, robots)
    /\ crawl_count' = 0
    /\ current_url' = NoURL
    /\ attempt' = 0
    /\ last' = "none"
    /\ failed_urls' = {}
    /\ unslept' = FALSE
    /\ owed' = {}
    /\ message' = "Crawling"
    /\ pc' = "loop"
    /\ UNCHANGED <<session, now>>

-----------------------------------------------------------------------------
(* crawl(): the loop *)

Get_peek(q) == q

\* Queue.get(): the head is returned and removed
Get(q) == Tail(q)

\* current_url = ...get(); if current_url in visited_urls: continue
Dequeue ==
    /\ pc = "loop"
    /\ LoopCondition
    /\ LET from == SelectQueue(high_priority_queue, low_priority_queue)
           url  == IF from = "high" THEN Head(high_priority_queue)
                   ELSE Head(low_priority_queue)
       IN  /\ high_priority_queue' =
                 IF from = "high" THEN Get(high_priority_queue) ELSE high_priority_queue
           /\ low_priority_queue' =
                 IF from = "low" THEN Get(low_priority_queue) ELSE low_priority_queue
           /\ current_url' = url
           /\ owed' = { p \in owed : p[1] # url }
           /\ IF AlreadyVisited(url, visited_urls)
              THEN pc' = "loop" /\ last' = "skipped" /\ attempt' = attempt
              ELSE pc' = "fetch" /\ last' = "dequeued" /\ attempt' = 1
    /\ UNCHANGED <<config, visited_urls, all_pages, all_images, all_links_found,
                   keyword_matches, rp, crawl_count, now, session, message, runs_left,
                   failed_urls, unslept>>

\* session.get raises and tenacity waits and tries again
AttemptFailsRetry ==
    /\ pc = "fetch"
    /\ attempt < STOP_AFTER_ATTEMPT
    /\ attempt' = attempt + 1
    /\ UNCHANGED <<config, crawlerState, rp, crawl_count, current_url, pc, now, session,
                   message, runs_left, last, failed_urls, unslept, owed>>

CountAfterFailure_charged(count) == count + 1

\* except Exception: continue (crawl_count += 1 is skipped)
CountAfterFailure(count) == count

PcAfterException_propagates == "idle"

\* except Exception as e: print(...); continue
PcAfterException == "loop"

\* the last attempt raises: tenacity raises RetryError, the except branch continues
AttemptFailsTerminal ==
    /\ pc = "fetch"
    /\ attempt = STOP_AFTER_ATTEMPT
    /\ crawl_count' = CountAfterFailure(crawl_count)
    /\ failed_urls' = failed_urls \cup {current_url}
    /\ last' = "fetch_failed"
    /\ pc' = PcAfterException
    /\ UNCHANGED <<config, crawlerState, rp, current_url, attempt, now, session, message,
                   runs_left, unslept, owed>>

\* fetch_url returns a response and the rest of the try block runs.  page is what the
\* server sent, order the order in which the set new_links is iterated.
AttemptSucceeds(page, order) ==
    /\ pc = "fetch"
    /\ LET visited   == MarkVisited(visited_urls, current_url)
           timestamp == now
           title     == PageTitle(page)
           pages     == all_pages \cup { <<current_url, title, timestamp>> }
           images    == all_images \cup
                          { <<urljoin(current_url, img.src), AltText(img.alt), title,
                              current_url, timestamp>> : img \in page.imgs }
           new_links == extract_links(page, current_url)
           links     == all_links_found \cup
                          { <<l[1], l[2], title, current_url, timestamp>> : l \in new_links }
           matched   == check_keywords(page.text, KEYWORDS)
           matches   == IF Len(matched) > 0
                        THEN DictSet(keyword_matches, current_url,
                                     [url |-> current_url, title |-> title,
                                      keywords |-> matched, timestamp |-> timestamp])
                        ELSE keyword_matches
           put       == EnqueueFrom(order, 1, visited, pages, KEYWORDS,
                                    high_priority_queue, low_priority_queue)
       IN  /\ visited_urls' = visited
           /\ now' = now + 1
           /\ pc' = IF TitleRaises(page) \/ put.raised THEN PcAfterException ELSE "loop"
           /\ unslept' = (TitleRaises(page) \/ put.raised)
           /\ IF TitleRaises(page)
              THEN \* AttributeError at page_title: only visited_urls has changed
                   /\ order = <<>>
                   /\ last' = "title_error"
                   /\ UNCHANGED <<all_pages, all_images, all_links_found, keyword_matches,
                                  high_priority_queue, low_priority_queue, crawl_count,
                                  owed>>
              ELSE /\ order \in Orders(new_links)
                   /\ all_pages' = pages
                   /\ all_images' = images
                   /\ all_links_found' = links
                   /\ keyword_matches' = matches
                   /\ high_priority_queue' = put.hq
                   /\ low_priority_queue' = put.lq
                   /\ owed' = owed \cup
                                (Added(put.hq, Len(high_priority_queue))
                                   \X Added(put.lq, Len(low_priority_queue)))
                   /\ IF put.raised
                      THEN \* re.error in the enqueue loop: sleep and count are skipped
                           last' = "regex_error" /\ crawl_count' = crawl_count
                      ELSE \* time.sleep(DELAY); crawl_count += 1
                           last' = "ok" /\ crawl_count' = crawl_count + 1
    /\ UNCHANGED <<config, rp, current_url, attempt, session, message, runs_left,
                   failed_urls>>

\* the loop condition is false: crawl() returns, save_results() and create_zip() run.
\* An OSError from save_results() is not caught by the handler.
Finish(fail_at) ==
    /\ pc = "loop"
    /\ ~LoopCondition
    /\ fail_at = 4 => Len(keyword_matches) > 0
    /\ files' = SavedFiles(files, fail_at)
    /\ attempted' = OpenedFiles(fail_at)
    /\ IF fail_at = 0
       THEN /\ crawl_complete' = TRUE
            /\ zip_file' = create_zip(files')
            /\ message' = "Crawling completed!"
       ELSE /\ message' = "OSError"
            /\ UNCHANGED <<crawl_complete, zip_file>>
    /\ pc' = "idle"
    /\ UNCHANGED <<config, crawlerState, loopLocals, rp, now, runs_left, site>>

\* one step of the handler's thread once crawl() has been entered
CrawlStep ==
    \/ Dequeue
    \/ AttemptFailsRetry
    \/ AttemptFailsTerminal
    \/ \E page \in site :
          \E order \in (IF TitleRaises(page) THEN { <<>> }
                        ELSE Orders(extract_links(page, current_url))) :
             AttemptSucceeds(page, order)
    \/ \E fail_at \in 0..4 : Finish(fail_at)

-----------------------------------------------------------------------------

\* What the user may type into "Max Pages to Crawl" that int() accepts
BudgetInputs == (-1)..MaxBudget

Next ==
    \/ StartBlankURL
    \/ \E t \in Seeds : StartBadNumber(t)
    \/ \E t \in Seeds, m \in BudgetInputs, k \in KeywordInputs, r \in RobotsOutcomes :
          Start(t, m, k, r)
    \/ Dequeue
    \/ AttemptFailsRetry
    \/ AttemptFailsTerminal
    \/ \E page \in site :
          \E order \in (IF TitleRaises(page) THEN { <<>> }
                        ELSE Orders(extract_links(page, current_url))) :
             AttemptSucceeds(page, order)
    \/ \E fail_at \in 0..4 : Finish(fail_at)

Spec == Init /\ [][Next]_vars

\* the budgets typed where several runs are followed
RunBudgets == { 0, 1 }

NextRuns ==
    \/ StartBlankURL
    \/ \E t \in Seeds : StartBadNumber(t)
    \/ \E t \in Seeds, m \in RunBudgets, k \in KeywordInputs, r \in RobotsOutcomes :
          Start(t, m, k, r)
    \/ CrawlStep

SpecRuns == InitRuns /\ [][NextRuns]_vars

\* the handler's thread keeps running: every HTTP attempt ends (timeout=10) and every
\* sleep is finite
FairSpec == Spec /\ WF_vars(CrawlStep)

-----------------------------------------------------------------------------
(* The claims *)

Frontier == SeqSet(high_priority_queue) \cup SeqSet(low_priority_queue)

Running == pc \in {"loop", "fetch"}

\* C1: a URL that is already in visited_urls is never passed to fetch_url again, even
\* when it was enqueued several times or rediscovered on a later page.
C1_VisitedNeverFetched == pc = "fetch" => current_url \notin visited_urls

\* a URL was dequeued a second time, found in visited_urls and discarded
C1_Witness ==
    /\ pc = "loop" /\ last = "skipped"
    /\ current_url \in visited_urls
    /\ \E p \in all_pages : p[1] = current_url

\* C2: no two entries of all_pages have the same URL.
C2_UniquePageURLs == \A p, q \in all_pages : p[1] = q[1] => p = q

\* two pages are recorded and a recorded URL was dequeued again
C2_Witness == Cardinality(all_pages) >= 2 /\ last = "skipped"

\* C3: when crawl() has completed, crawl_count <= MAX_CRAWL, for every budget the user
\* can type.
C3_CountWithinBudget ==
    message \in {"Crawling completed!", "OSError"} => crawl_count <= MAX_CRAWL

\* a URL leaves the low queue inside the loop
DequeuedFromLow ==
    /\ pc = "loop" /\ pc' # "idle"
    /\ Len(low_priority_queue') = Len(low_priority_queue) - 1

\* C4: a URL is taken from the low queue only when the high queue is empty at that
\* moment; and of a keyword link K and another link N found on the same page, N is not
\* fetched while K still waits.
C4_PriorityFirst ==
    /\ [][DequeuedFromLow => Len(high_priority_queue) = 0]_vars
    /\ [](pc = "fetch" => \A p \in owed : p[2] # current_url)

\* N is being fetched after K, found on the same page, has been fetched
C4_Witness ==
    /\ pc = "fetch"
    /\ Classify(current_url, KEYWORDS) = "low"
    /\ \E k, n \in all_links_found :
          /\ k[4] = n[4] /\ n[1] = current_url
          /\ Classify(k[1], KEYWORDS) = "high"
          /\ k[1] \in visited_urls \cup failed_urls

\* C5: while crawl() runs, every URL in either queue has the host of the seed URL.
C5_SameHostFrontier == Running => \A u \in Frontier : u.host = TARGET_URL.host

\* a page with a link to another host has been processed and links of it are queued
C5_Witness ==
    /\ Running /\ Frontier # {}
    /\ \E p \in all_pages, pg \in site :
          /\ PageTitle(pg) = p[2]
          /\ \E l \in pg.links :
                Followable(l.href) /\ urljoin(p[1], l.href).host # p[1].host

\* C6: no URL for which can_fetch is false is passed to fetch_url.
C6_RobotsConsulted == pc = "fetch" => can_fetch(current_url)

\* C7: a URL whose fetch failed terminally is not passed to fetch_url again in the run.
C7_FailedNotRefetched == pc = "fetch" => current_url \notin failed_urls

\* the step in which the last attempt fails and the except branch runs
TerminalFailureStep == pc = "fetch" /\ pc' = "loop" /\ last' = "fetch_failed"

\* C8: an iteration that ends in a terminal fetch failure leaves crawl_count, the
\* accumulators, visited_urls and the queues as they were, and the loop goes on.
C8_FailureLeavesResults ==
    [][TerminalFailureStep =>
         /\ crawl_count' = crawl_count
         /\ UNCHANGED <<all_pages, all_images, all_links_found, keyword_matches>>
         /\ UNCHANGED <<visited_urls, high_priority_queue, low_priority_queue>>]_vars

\* a fetch has just failed terminally with results recorded and URLs still queued
C8_Witness ==
    /\ pc = "loop" /\ last = "fetch_failed" /\ attempt = STOP_AFTER_ATTEMPT
    /\ all_pages # {} /\ Frontier # {} /\ LoopCondition

\* C9: a call of fetch_url makes at most 3 attempts, and a URL whose fetch succeeded is
\* recorded in all_pages.
C9_SuccessRecorded ==
    /\ attempt <= STOP_AFTER_ATTEMPT
    /\ (pc = "loop" /\ last \in {"ok", "regex_error", "title_error"})
          => \E p \in all_pages : p[1] = current_url

NoRepeat(q) == \A i, j \in 1..Len(q) : q[i] = q[j] => i = j

\* C10 as stated: a URL appears at most once in the frontier.
C10_AtMostOnceInFrontier ==
    NoRepeat(high_priority_queue \o low_priority_queue)

\* C10 as amended: no URL is in both queues at once.
C10_NotInBothQueues ==
    SeqSet(high_priority_queue) \cap SeqSet(low_priority_queue) = {}

\* one page linked a URL twice with different anchor texts: it is queued twice in the
\* high queue while the low queue holds other URLs
C10_Witness ==
    /\ ~NoRepeat(high_priority_queue)
    /\ low_priority_queue # <<>>

\* C12: each output file is sorted by timestamp descending.
SortedDesc(rows) == \A i \in 1..(Len(rows) - 1) : rows[i] >= rows[i + 1]

C12_FilesSortedDescending ==
    \A f \in FileNames : files[f].exists => SortedDesc(files[f].rows)

\* C13: when the write of one output file fails, save_results() still tries to write
\* every other file of the output set.
C13_EveryFileAttempted == message = "OSError" => FilesToWrite \subseteq attempted

\* C14: a non-positive page budget is a fatal configuration error: no crawl is reported
\* as completed with it.
C14_BadBudgetRejected ==
    MAX_CRAWL <= 0 => ~crawl_complete /\ message # "Crawling completed!"

\* C16: after every fetch that returned, time.sleep(DELAY) runs before the next fetch.
C16_SleepBeforeNextFetch == pc = "fetch" => ~unslept

\* crawl() has returned after its loop took at least one URL
Returned == pc = "idle" /\ current_url # NoURL

\* C17: when crawl() returns after entering the loop, both queues are empty or
\* crawl_count has reached MAX_CRAWL.
C17_ReturnsOnlyWhenDone == Returned => Frontier = {} \/ crawl_count = MAX_CRAWL

\* crawl() returned on the budget, URLs still queued, after a terminal fetch failure and
\* a page whose processing raised
C17_Witness ==
    /\ Returned /\ crawl_count = MAX_CRAWL /\ Frontier # {}
    /\ failed_urls # {}
    /\ Cardinality(visited_urls) > Cardinality(all_pages)

\* C18: every URL in the queues or in visited_urls is in normalized form.
C18_AllNormalized ==
    Running => \A u \in Frontier \cup visited_urls : u = normalize_url(u)

\* C20: at every loop-iteration boundary the number of PageRecords equals crawl_count.
C20_PagesEqualCount == pc = "loop" => Cardinality(all_pages) = crawl_count

\* the queue line 97 reads
SelectedQueue ==
    IF SelectQueue(high_priority_queue, low_priority_queue) = "high"
    THEN high_priority_queue ELSE low_priority_queue

\* every URL a crawl of the site can come to hold: the seeds and what the pages link
RECURSIVE Closure(_)
Closure(S) ==
    LET T == S \cup { l[1] : l \in UNION { extract_links(p, u) : p \in PagePool, u \in S } }
    IN  IF T = S THEN S ELSE Closure(T)

SiteURLs == Closure(Seeds)

\* the most links one page holds
MaxOutLinks ==
    CHOOSE n \in 0..Cardinality(UNION { p.links : p \in PagePool }) :
       /\ \A p \in PagePool : Cardinality(p.links) <= n
       /\ \E p \in PagePool : Cardinality(p.links) = n

\* what is left to do: URLs that can still be fetched successfully weigh more than
\* anything one page can enqueue, a queue entry more than the attempts of one fetch
Measure ==
    (STOP_AFTER_ATTEMPT + 1) * (MaxOutLinks + 1) * Cardinality(SiteURLs \ visited_urls)
      + (STOP_AFTER_ATTEMPT + 1) * (Len(high_priority_queue) + Len(low_priority_queue))
      + (IF pc = "fetch" THEN STOP_AFTER_ATTEMPT + 1 - attempt ELSE 0)
      + (IF Running THEN 1 ELSE 0)

\* crawl() has been entered and, under fair scheduling, returns
Terminates == Running ~> pc = "idle"

\* C19: on a site with finitely many URLs crawl() always terminates, whatever succeeds,
\* fails or raises: every step of the loop lowers a measure that cannot fall below 0;
\* and get() is never called on an empty queue.
C19_Terminates ==
    /\ [][Running => Measure' < Measure]_vars
    /\ [](Measure >= 0)
    /\ [](pc = "loop" /\ LoopCondition => Len(SelectedQueue) > 0)

\* crawl() has returned with both queues drained, after a terminal fetch failure and
\* with the last page's processing having raised
C19_Witness ==
    /\ Returned /\ Frontier = {} /\ crawl_count < MAX_CRAWL
    /\ failed_urls # {} /\ unslept

\* C11: after a completed run with an empty keyword list, keyword_matches.csv neither
\* exists nor is part of the archive, whatever earlier runs wrote.
C11_NoStaleKeywordFile ==
    (message = "Crawling completed!" /\ KEYWORDS = <<>>) =>
        /\ ~files["keyword_matches.csv"].exists
        /\ "keyword_matches.csv" \notin zip_file

\* crawl() has been entered and has not taken a URL yet
RunStart == pc = "loop" /\ current_url = NoURL

\* C15: every run starts with visited_urls and the accumulators empty and with exactly
\* the seed of the current configuration in the high queue.
C15_CleanStart ==
    RunStart =>
        /\ visited_urls = {} /\ all_pages = {} /\ all_images = {}
        /\ all_links_found = {} /\ keyword_matches = <<>>
        /\ high_priority_queue = <<TARGET_URL>> /\ low_priority_queue = <<>>

\* a run starts after an earlier run recorded pages and matches, with another seed
C15_Witness ==
    /\ RunStart
    /\ Len(files["pages.csv"].rows) > 0 /\ files["keyword_matches.csv"].exists
    /\ TARGET_URL # DEFAULT_TARGET_URL

====
